---- MODULE Spec2Model ----
(***************************************************************************)
(* Model of the AI post bot (src/main.py): the daily schedule computed by  *)
(* AIPostBot.setup_schedule, the polling loop of AIPostBot.run_scheduler   *)
(* on its background thread, the /test_post request handlers of the web    *)
(* server, and the generate-and-post pipeline create_and_post_ai_post.     *)
(* Time is counted in minutes since 00:00 of day 0.                        *)
(***************************************************************************)
EXTENDS Integers, Sequences, FiniteSets, TLC

VARIABLES
    env,            \* the environment variables that are set at startup
    missing_vars,   \* bot.missing_vars of the bot built by main()
    mainPc,         \* position of main()
    post_times,     \* post_times of setup_schedule: the time strings
    jobs,           \* schedule.jobs: one record per registered daily job
    now,            \* wall clock, minutes since day 0 00:00
    setupTime,      \* wall clock when setup_schedule ran (-1 before)
    schedPc,        \* position of run_scheduler on the scheduler thread
    pollStart,      \* wall clock at the latest call of schedule.run_pending
    batch,          \* jobs run_pending found due and has not yet run
    running,        \* jobs whose create_and_post_ai_post call is in progress
    firedOn,        \* firedOn[s][d]: invocations for slot s scheduled on day d
    raises,         \* scheduled invocations in which the task body raised
    firedAfterRaise,\* a scheduled invocation began after one that raised
    hPc             \* each /test_post handler: "idle", "running" (inside
                    \* create_and_post_ai_post) or "refused" (error reply)

sysVars == <<env, missing_vars, mainPc, post_times, jobs, now, setupTime,
             schedPc, pollStart, batch, running, firedOn, raises,
             firedAfterRaise, hPc>>

----------------------------------------------------------------------------
(* Bounds of the model *)

MaxDays == 2
MaxTaskMinutes == 1
MaxHandlers == 2
MaxRaises == 1

\* wall-clock times at which the process is started: 06:58, before every
\* slot, and 20:12, the very minute of the last slot but one
StartTimes == {6 * 60 + 58, 20 * 60 + 12}

MinutesPerDay == 24 * 60
Horizon == MaxDays * MinutesPerDay
Days == 0 .. MaxDays
Handlers == 1 .. MaxHandlers

----------------------------------------------------------------------------
(* AIPostBot.__init__ : the required environment variables *)

RequiredVars == <<"GOOGLE_API_KEY", "TELEGRAM_BOT_TOKEN", "TELEGRAM_CHANNEL_ID">>

RECURSIVE MissingFrom(_, _)
MissingFrom(e, i) ==
    IF i > Len(RequiredVars) THEN <<>>
    ELSE (IF RequiredVars[i] \in e THEN <<>> ELSE <<RequiredVars[i]>>)
         \o MissingFrom(e, i + 1)

\* self.missing_vars after __init__ in environment e
BotMissingVarsNoChannel(e) == MissingFrom(e \cup {"TELEGRAM_CHANNEL_ID"}, 1)
BotMissingVars(e) == MissingFrom(e, 1)

----------------------------------------------------------------------------
(* AIPostBot.setup_schedule : the slot arithmetic *)

start_hour == 7
end_hour == 21
NumPosts == 20
NumIntervals == 19

total_minutes == (end_hour - start_hour) * 60

intervalDiv20 == total_minutes \div NumPosts
interval == total_minutes \div NumIntervals

minutes_from_start(i) == i * interval

hourNoCarry(i) == start_hour
hour(i) == start_hour + (minutes_from_start(i) \div 60)

minute(i) == minutes_from_start(i) % 60

DigitChars == <<"0", "1", "2", "3", "4", "5", "6", "7", "8", "9">>

RECURSIVE Digits(_)
Digits(n) == IF n < 10 THEN <<DigitChars[n + 1]>>
             ELSE Digits(n \div 10) \o <<DigitChars[(n % 10) + 1]>>

\* the format specification {n:02d}
Fmt02d(n) == IF n < 10 THEN <<"0">> \o Digits(n) ELSE Digits(n)

\* time_str = f"{hour:02d}:{minute:02d}" for loop index i (0-based)
time_str(i) == Fmt02d(hour(i)) \o <<":">> \o Fmt02d(minute(i))

\* the list post_times after the loop over range(20)
PostTimes == [k \in 1 .. NumPosts |-> time_str(k - 1)]

----------------------------------------------------------------------------
(* schedule.every().day.at(time_str).do(job) : the daily job *)

DigitValue(c) == CHOOSE d \in 0 .. 9 : DigitChars[d + 1] = c

RECURSIVE ParseInt(_)
ParseInt(s) == IF Len(s) = 0 THEN 0
               ELSE 10 * ParseInt(SubSeq(s, 1, Len(s) - 1)) + DigitValue(s[Len(s)])

ColonAt(s) == CHOOSE k \in 1 .. Len(s) : s[k] = ":"

\* Job.at("HH:MM"): the minute of the day the string denotes
at_time(s) == ParseInt(SubSeq(s, 1, ColonAt(s) - 1)) * 60
              + ParseInt(SubSeq(s, ColonAt(s) + 1, Len(s)))

\* Job._schedule_next_run for a daily job: the first occurrence of the time
\* of day strictly after the clock reading t
NextRunSameDay(at, t) == (t \div MinutesPerDay) * MinutesPerDay + at
ScheduleNextRun(at, t) ==
    IF (t \div MinutesPerDay) * MinutesPerDay + at > t
    THEN (t \div MinutesPerDay) * MinutesPerDay + at
    ELSE ((t \div MinutesPerDay) + 1) * MinutesPerDay + at

\* the job registered for a time string at clock reading t
NewJob(s, t) == [at |-> at_time(s), next_run |-> ScheduleNextRun(at_time(s), t)]

\* Job.should_run
ShouldRun(job, t) == t >= job.next_run

RECURSIVE DueFrom(_, _, _)
DueFrom(js, t, i) ==
    IF i > Len(js) THEN <<>>
    ELSE (IF ShouldRun(js[i], t) THEN <<i>> ELSE <<>>) \o DueFrom(js, t, i + 1)

RECURSIVE InsertByNextRun(_, _, _)
InsertByNextRun(js, sorted, i) ==
    IF sorted = <<>> THEN <<i>>
    ELSE IF js[i].next_run < js[Head(sorted)].next_run
         THEN <<i>> \o sorted
         ELSE <<Head(sorted)>> \o InsertByNextRun(js, Tail(sorted), i)

RECURSIVE SortByNextRun(_, _)
SortByNextRun(js, idx) ==
    IF idx = <<>> THEN <<>>
    ELSE InsertByNextRun(js, SortByNextRun(js, Tail(idx)), Head(idx))

\* sorted(job for job in self.jobs if job.should_run) of run_pending
RunnableJobs(js, t) == SortByNextRun(js, DueFrom(js, t, 1))

----------------------------------------------------------------------------
(* Exceptions: how the two handlers on the scheduled path treat them *)

\* the stages of create_and_post_ai_post in which the body may raise
Stages == {"topic", "text", "image", "publish"}

\* except Exception at the end of create_and_post_ai_post: what escapes
TaskHandlerExits(exc) == IF exc = "none" THEN "none" ELSE "SystemExit"
TaskHandler(exc) == "none"

\* except Exception in run_scheduler: TRUE when the loop goes on
LoopHandler(exc) == exc # "SystemExit"

\* job.run() is a plain call: run_pending starts the next job only when no
\* call is in progress
SyncCall(inProgress) == inProgress = {}

----------------------------------------------------------------------------
(* The process: main(), the scheduler thread, the /test_post handlers *)

Slots == 1 .. NumPosts

SysInit ==
    /\ env \in SUBSET {RequiredVars[k] : k \in 1 .. Len(RequiredVars)}
    /\ missing_vars = <<>>
    /\ mainPc = "start"
    /\ post_times = <<>>
    /\ jobs = <<>>
    /\ now \in StartTimes
    /\ setupTime = -1
    /\ schedPc = "not_started"
    /\ pollStart = -1
    /\ batch = <<>>
    /\ running = {}
    /\ firedOn = [s \in Slots |-> [d \in Days |-> 0]]
    /\ raises = 0
    /\ firedAfterRaise = FALSE
    /\ hPc = [h \in Handlers |-> "idle"]

\* main: bot = AIPostBot()
Construct ==
    /\ mainPc = "start"
    /\ missing_vars' = BotMissingVars(env)
    /\ mainPc' = "constructed"
    /\ UNCHANGED <<env, post_times, jobs, now, setupTime, schedPc, pollStart,
                   batch, running, firedOn, raises, firedAfterRaise, hPc>>

\* main: if not bot.missing_vars: bot.setup_schedule()
SetupSchedule ==
    /\ mainPc = "constructed"
    /\ missing_vars = <<>>
    /\ post_times' = PostTimes
    /\ jobs' = [k \in 1 .. NumPosts |-> NewJob(PostTimes[k], now)]
    /\ setupTime' = now
    /\ mainPc' = "scheduled"
    /\ UNCHANGED <<env, missing_vars, now, schedPc, pollStart, batch, running,
                   firedOn, raises, firedAfterRaise, hPc>>

\* main: scheduler_thread.start()
StartThread ==
    /\ mainPc = "scheduled"
    /\ schedPc' = "poll"
    /\ mainPc' = "thread_started"
    /\ UNCHANGED <<env, missing_vars, post_times, jobs, now, setupTime,
                   pollStart, batch, running, firedOn, raises,
                   firedAfterRaise, hPc>>

\* main: the else branch, no scheduler
SkipScheduler ==
    /\ mainPc = "constructed"
    /\ missing_vars # <<>>
    /\ mainPc' = "no_scheduler"
    /\ UNCHANGED <<env, missing_vars, post_times, jobs, now, setupTime,
                   schedPc, pollStart, batch, running, firedOn, raises,
                   firedAfterRaise, hPc>>

\* main: app.run(...)
StartServer ==
    /\ mainPc \in {"thread_started", "no_scheduler"}
    /\ mainPc' = "serving"
    /\ UNCHANGED <<env, missing_vars, post_times, jobs, now, setupTime,
                   schedPc, pollStart, batch, running, firedOn, raises,
                   firedAfterRaise, hPc>>

\* run_scheduler: schedule.run_pending() collects the due jobs
RunPending ==
    /\ schedPc = "poll"
    /\ pollStart' = now
    /\ batch' = RunnableJobs(jobs, now)
    /\ schedPc' = "run_pending"
    /\ UNCHANGED <<env, missing_vars, mainPc, post_times, jobs, now,
                   setupTime, running, firedOn, raises, firedAfterRaise, hPc>>

DayOf(t) == t \div MinutesPerDay

\* run_pending: job.run() calls create_and_post_ai_post for the next due job
JobBegin ==
    /\ schedPc = "run_pending"
    /\ batch # <<>>
    /\ SyncCall(running)
    /\ LET j == Head(batch)
           d == DayOf(jobs[j].next_run)
       IN /\ running' = running \cup {j}
          /\ firedOn' = [firedOn EXCEPT ![j][d] = @ + 1]
    /\ batch' = Tail(batch)
    /\ firedAfterRaise' = (firedAfterRaise \/ raises > 0)
    /\ UNCHANGED <<env, missing_vars, mainPc, post_times, jobs, now,
                   setupTime, schedPc, pollStart, raises, hPc>>

\* create_and_post_ai_post returns (or raises) after dur minutes; the job is
\* rescheduled when it returned, and an escaping exception ends run_pending
JobEnd(j, dur, exc) ==
    /\ schedPc = "run_pending"
    /\ j \in running
    /\ now + dur <= Horizon
    /\ exc # "none" => raises < MaxRaises
    /\ now' = now + dur
    /\ running' = running \ {j}
    /\ raises' = IF exc = "none" THEN raises ELSE raises + 1
    /\ IF TaskHandler(exc) = "none"
       THEN /\ jobs' = [jobs EXCEPT ![j].next_run =
                                       ScheduleNextRun(jobs[j].at, now + dur)]
            /\ UNCHANGED <<batch, schedPc>>
       ELSE /\ batch' = <<>>
            /\ schedPc' = IF LoopHandler(TaskHandler(exc)) THEN "caught"
                                                            ELSE "dead"
            /\ UNCHANGED jobs
    /\ UNCHANGED <<env, missing_vars, mainPc, post_times, setupTime,
                   pollStart, firedOn, firedAfterRaise, hPc>>

\* run_scheduler: time.sleep(60), in the try block or in the handler
Sleep ==
    /\ \/ schedPc = "run_pending" /\ batch = <<>> /\ running = {}
       \/ schedPc = "caught"
    /\ now + 1 <= Horizon
    /\ now' = now + 1
    /\ schedPc' = "poll"
    /\ UNCHANGED <<env, missing_vars, mainPc, post_times, jobs, setupTime,
                   pollStart, batch, running, firedOn, raises,
                   firedAfterRaise, hPc>>

\* test_post: bot = AIPostBot(); the error reply or the start of the run
TestPostBegin(h) ==
    /\ mainPc = "serving"
    /\ hPc[h] = "idle"
    /\ hPc' = [hPc EXCEPT ![h] = IF BotMissingVars(env) # <<>> THEN "refused"
                                                               ELSE "running"]
    /\ UNCHANGED <<env, missing_vars, mainPc, post_times, jobs, now,
                   setupTime, schedPc, pollStart, batch, running, firedOn,
                   raises, firedAfterRaise>>

\* test_post: bot.create_and_post_ai_post() returned, the success reply is
\* sent and the handler is free for the next request
TestPostEnd(h) ==
    /\ hPc[h] = "running"
    /\ hPc' = [hPc EXCEPT ![h] = "idle"]
    /\ UNCHANGED <<env, missing_vars, mainPc, post_times, jobs, now,
                   setupTime, schedPc, pollStart, batch, running, firedOn,
                   raises, firedAfterRaise>>

----------------------------------------------------------------------------
(* One run of create_and_post_ai_post: texts, images, upstream responses *)

VARIABLES
    tpc,            \* position of create_and_post_ai_post
    topic,          \* index of the chosen topic in ai_topics (0 before)
    text_response,  \* outcome of text_model.generate_content in this run
    text_content,   \* text_content of create_and_post_ai_post
    image_response, \* outcome of image_model.generate_content in this run
    ai_image,       \* what generate_topic_image returned
    image_buffer,   \* image_buffer of create_and_post_ai_post
    calls,          \* the image functions called so far, in order
    sends,          \* the outbound sends of post_to_telegram, in order
    success,        \* what post_to_telegram returned ("unset" before)
    callee_exc,     \* exception that left a function called by the run
    escaped         \* exception that left create_and_post_ai_post

taskVars == <<tpc, topic, text_response, text_content, image_response,
              ai_image, image_buffer, calls, sends, success, callee_exc,
              escaped>>

vars == <<sysVars, taskVars>>

MaxParts == 2

\* self.ai_topics (the leading emoji and the tail of each string left out)
ai_topics == <<
    "Prompt engineering sirli formulasi", "AI bilan pul ishlash",
    "Midjourney va DALL-E dan ajoyib rasmlar", "ChatGPT bilan dasturlash",
    "AI bilan biznes-ideya yaratish", "CV yozishda AI mahorati",
    "AI video yaratish", "O'zbek tilida AI", "AI xatolarini bartaraf etish",
    "AI bilan startup ochish", "AI rasm promptlari kolleksiyasi",
    "Neural tarmoqlar oddiy tilda", "GPT-4 vs Gemini vs Claude",
    "AI musiqa yaratish", "AI bilan o'yin yaratish",
    "AI bilan ma'lumot tahlili", "AI tarjimon", "AI chat-bot yaratish",
    "AI bilan kreativ yozish", "AI bilan marketing", "AI kelajak bashorati",
    "AI olimpiada", "AI roleplay", "AI trading" >>

\* len(topic) of each entry of self.ai_topics
TopicLens == <<78, 70, 77, 53, 71, 71, 67, 70, 79, 68, 69, 69,
               71, 71, 64, 68, 62, 62, 69, 69, 65, 69, 68, 58>>

Topics == 1 .. Len(ai_topics)

(* A text is a sequence of runs: n whitespace characters, n other          *)
(* characters, or the characters of topic id.                              *)
Ws(n) == [k |-> "ws", n |-> n, id |-> 0]
Chars(n) == [k |-> "chars", n |-> n, id |-> 0]
TopicRun(t) == [k |-> "topic", n |-> TopicLens[t], id |-> t]

RECURSIVE TextLen(_)
TextLen(text) == IF text = <<>> THEN 0 ELSE Head(text).n + TextLen(Tail(text))

IsBlankRun(r) == r.k = "ws" \/ r.n = 0

RECURSIVE LStrip(_)
LStrip(text) == IF text = <<>> THEN <<>>
                ELSE IF IsBlankRun(Head(text)) THEN LStrip(Tail(text))
                ELSE text

RECURSIVE RStrip(_)
RStrip(text) == IF text = <<>> THEN <<>>
                ELSE IF IsBlankRun(text[Len(text)])
                     THEN RStrip(SubSeq(text, 1, Len(text) - 1))
                ELSE text

\* str.strip()
Strip(text) == RStrip(LStrip(text))

\* topic in text
ContainsTopic(text, t) == \E i \in 1 .. Len(text) : text[i].k = "topic" /\ text[i].id = t

FallbackPrefixLen == 85
FallbackSuffixLen == 509

\* AIPostBot._get_fallback_text
GetFallbackText(t) == <<Chars(FallbackPrefixLen), TopicRun(t), Chars(FallbackSuffixLen)>>

\* the result of a call: a return value, or an exception that left the call
Ret(v) == [ret |-> v, exc |-> "none"]
Raise(e) == [ret |-> <<>>, exc |-> e]

\* AIPostBot.generate_uzbek_text, r the outcome of generate_content:
\* r.kind is "raises" (the call raised), "none" (falsy response),
\* "no_text" (no text attribute), "text_raises" (reading .text raised)
\* or "text" (r.text is the text)
generate_uzbek_text(t, r) ==
    IF r.kind \in {"raises", "text_raises"} THEN Ret(GetFallbackText(t))
    ELSE IF r.kind = "text" /\ TextLen(r.text) > 0 THEN Ret(Strip(r.text))
    ELSE Ret(GetFallbackText(t))

MkText(lead, body, trail) ==
    (IF lead > 0 THEN <<Ws(lead)>> ELSE <<>>)
    \o (IF body > 0 THEN <<Chars(body)>> ELSE <<>>)
    \o (IF trail > 0 THEN <<Ws(trail)>> ELSE <<>>)

BodyLens == {0, 1, 500, 1024, 1025, 2000}

TextSamples == {MkText(l, b, tr) : l \in {0, 1}, b \in BodyLens, tr \in {0, 2}}

TextResponses ==
    {[kind |-> kd, text |-> <<>>] : kd \in {"raises", "none", "no_text", "text_raises"}}
    \cup {[kind |-> "text", text |-> x] : x \in TextSamples}

----------------------------------------------------------------------------
(* Images and the response of the image model *)

\* None, the BytesIO built from part i of the response, the PNG of
\* create_topic_graphic
NoImage == [img |-> "none", part |-> 0, n |-> 0]
AiImage(i, n) == [img |-> "ai", part |-> i, n |-> n]
GraphicImage == [img |-> "graphic", part |-> 0, n |-> 1]

(* A part of the response: inline is "absent" (no or falsy inline_data),   *)
(* "no_data" (inline_data without a data attribute), "str" (base64 text,   *)
(* padded correctly or not, of n decoded bytes) or "bytes" (n raw bytes).  *)
Part(inline, padded, n) == [inline |-> inline, padded |-> padded, n |-> n]

PartKinds == {Part("absent", TRUE, 0), Part("no_data", TRUE, 0),
              Part("bytes", TRUE, 0), Part("bytes", TRUE, 3),
              Part("str", TRUE, 0), Part("str", TRUE, 3),
              Part("str", FALSE, 3)}

\* hasattr(part, 'inline_data') and part.inline_data and
\* hasattr(part.inline_data, 'data')
HasInlineData(p) == p.inline \in {"str", "bytes"}

\* base64.b64decode(image_data_b64): the decoded length, or binascii.Error
B64Decode(p) == IF p.padded THEN Ret(p.n) ELSE Raise("binascii.Error")

\* the if isinstance(image_data_b64, str) ... else ... of the loop body
ImageData(p) == IF p.inline = "str" THEN B64Decode(p) ELSE Ret(p.n)

\* the loop over response.parts from part i on
RECURSIVE ScanParts(_, _)
ScanParts(parts, i) ==
    IF i > Len(parts) THEN Ret(NoImage)
    ELSE IF ~HasInlineData(parts[i]) THEN ScanParts(parts, i + 1)
    ELSE IF ImageData(parts[i]).exc # "none" THEN Raise(ImageData(parts[i]).exc)
    ELSE IF ImageData(parts[i]).ret > 0 THEN Ret(AiImage(i, ImageData(parts[i]).ret))
    ELSE ScanParts(parts, i + 1)

\* the try body of generate_topic_image, r the outcome of generate_content:
\* r.kind is "raises", "none" (falsy response), "no_parts" (no parts
\* attribute) or "parts"
TopicImageBody(r) ==
    IF r.kind = "raises" THEN Raise("upstream")
    ELSE IF r.kind = "parts" /\ Len(r.parts) > 0 THEN ScanParts(r.parts, 1)
    ELSE Ret(NoImage)

\* AIPostBot.generate_topic_image: except Exception returns None
generate_topic_image(r) ==
    IF TopicImageBody(r).exc # "none" THEN Ret(NoImage) ELSE TopicImageBody(r)

RECURSIVE SeqsUpTo(_, _)
SeqsUpTo(S, n) ==
    IF n = 0 THEN {<<>>}
    ELSE SeqsUpTo(S, n - 1)
         \cup {Append(q, x) : q \in {y \in SeqsUpTo(S, n - 1) : Len(y) = n - 1}, x \in S}

ImageResponses ==
    {[kind |-> kd, parts |-> <<>>] : kd \in {"raises", "none", "no_parts"}}
    \cup {[kind |-> "parts", parts |-> ps] : ps \in SeqsUpTo(PartKinds, MaxParts)}

\* AIPostBot.create_topic_graphic: the PNG, or None when drawing raised
create_topic_graphic(drawn) == IF drawn THEN Ret(GraphicImage) ELSE Ret(NoImage)

\* `if not image_buffer` of create_and_post_ai_post
NeedsFallbackAlways(img) == TRUE
NeedsFallback(img) == img = NoImage

----------------------------------------------------------------------------
(* AIPostBot.post_to_telegram *)

CaptionLimit == 1024
ShortCaptionLen == 30

\* short_caption
short_caption == <<Chars(ShortCaptionLen)>>

\* the outcome of one HTTP request: a response status, or an exception
Status(code) == [status |-> code, exc |-> "none"]
Failure(e) == [status |-> 0, exc |-> e]

HttpOutcomes == {Status(200), Status(400), Status(404), Status(503),
                 Failure("Timeout"), Failure("ConnectionError")}

Attempt(o, delay) == [status |-> o.status, exc |-> o.exc, delay |-> delay]

\* requests.post(url, ..., timeout=30) with outcome o: one send, the
\* attempts made for it and the delay slept before each
RequestsPostRetrying(op, body, o) ==
    [op |-> op, body |-> body,
     attempts |-> IF o = Status(200) THEN <<Attempt(o, 0)>>
                  ELSE <<Attempt(o, 0), Attempt(o, 1), Attempt(o, 2)>>]
RequestsPost(op, body, o) ==
    [op |-> op, body |-> body, attempts |-> <<Attempt(o, 0)>>]

\* the response (or exception) the caller of requests.post sees
Outcome(send) == send.attempts[Len(send.attempts)]

Posted(ss, r) == [sends |-> ss, ret |-> r, exc |-> "none"]
PostRaised(ss, e) == [sends |-> ss, ret |-> FALSE, exc |-> e]

\* one requests.post followed by the status test that ends the function
FinalSend(before, send) ==
    IF Outcome(send).exc # "none"
    THEN PostRaised(Append(before, send), Outcome(send).exc)
    ELSE Posted(Append(before, send), Outcome(send).status = 200)

\* `if image_buffer:`
HasImageAlways(img) == TRUE
HasImage(img) == img # NoImage

\* `if len(text) <= 1024:`
FitsCaptionBelow(text) == TextLen(text) < CaptionLimit
FitsCaption(text) == TextLen(text) <= CaptionLimit

\* `if photo_response.status_code != 200:`
PhotoFailedNever(photo) == FALSE
PhotoFailed(photo) == Outcome(photo).status # 200

\* the try body of post_to_telegram; o1, o2 are the outcomes of the first
\* and of the second HTTP request
PostBody(text, img, o1, o2) ==
    IF HasImage(img)
    THEN IF FitsCaption(text)
         THEN FinalSend(<<>>, RequestsPost("sendPhoto", text, o1))
         ELSE LET photo == RequestsPost("sendPhoto", short_caption, o1)
              IN IF Outcome(photo).exc # "none"
                 THEN PostRaised(<<photo>>, Outcome(photo).exc)
                 ELSE IF PhotoFailed(photo)
                 THEN Posted(<<photo>>, FALSE)
                 ELSE FinalSend(<<photo>>, RequestsPost("sendMessage", text, o2))
    ELSE FinalSend(<<>>, RequestsPost("sendMessage", text, o1))

\* AIPostBot.post_to_telegram: except Exception returns False
PostUncaught(text, img, o1, o2) == PostBody(text, img, o1, o2)
post_to_telegram(text, img, o1, o2) ==
    IF PostBody(text, img, o1, o2).exc # "none"
    THEN Posted(PostBody(text, img, o1, o2).sends, FALSE)
    ELSE PostBody(text, img, o1, o2)

----------------------------------------------------------------------------
(* AIPostBot.create_and_post_ai_post, one step per call it makes *)

NoResponse == [kind |-> "unset"]

TaskInit ==
    /\ tpc = "start"
    /\ topic = 0
    /\ text_response = NoResponse
    /\ text_content = <<>>
    /\ image_response = NoResponse
    /\ ai_image = NoImage
    /\ image_buffer = NoImage
    /\ calls = <<>>
    /\ sends = <<>>
    /\ success = "unset"
    /\ callee_exc = "none"
    /\ escaped = "none"

\* the except clause of create_and_post_ai_post takes over
Abort(e) ==
    /\ tpc' = "done"
    /\ callee_exc' = e
    /\ escaped' = TaskHandler(e)

\* topic = random.choice(self.ai_topics)
SelectTopic ==
    /\ tpc = "start"
    /\ topic' \in Topics
    /\ tpc' = "text"
    /\ UNCHANGED <<text_response, text_content, image_response, ai_image,
                   image_buffer, calls, sends, success, callee_exc, escaped>>

\* text_content = self.generate_uzbek_text(topic)
GenerateText ==
    /\ tpc = "text"
    /\ \E r \in TextResponses :
         /\ text_response' = r
         /\ IF generate_uzbek_text(topic, r).exc = "none"
            THEN /\ text_content' = generate_uzbek_text(topic, r).ret
                 /\ tpc' = "image"
                 /\ UNCHANGED <<callee_exc, escaped>>
            ELSE /\ Abort(generate_uzbek_text(topic, r).exc)
                 /\ UNCHANGED text_content
    /\ UNCHANGED <<topic, image_response, ai_image, image_buffer, calls,
                   sends, success>>

\* image_buffer = self.generate_topic_image(topic); the response of the
\* text model is out of scope by now
GenerateImage ==
    /\ tpc = "image"
    /\ text_response' = NoResponse
    /\ calls' = Append(calls, "generate_topic_image")
    /\ \E r \in ImageResponses :
         /\ image_response' = r
         /\ IF generate_topic_image(r).exc = "none"
            THEN /\ ai_image' = generate_topic_image(r).ret
                 /\ image_buffer' = generate_topic_image(r).ret
                 /\ tpc' = IF NeedsFallback(generate_topic_image(r).ret)
                           THEN "graphic" ELSE "post"
                 /\ UNCHANGED <<callee_exc, escaped>>
            ELSE /\ Abort(generate_topic_image(r).exc)
                 /\ UNCHANGED <<ai_image, image_buffer>>
    /\ UNCHANGED <<topic, text_content, sends, success>>

\* image_buffer = self.create_topic_graphic(topic)
CreateGraphic ==
    /\ tpc = "graphic"
    /\ calls' = Append(calls, "create_topic_graphic")
    /\ \E drawn \in BOOLEAN :
         IF create_topic_graphic(drawn).exc = "none"
         THEN /\ image_buffer' = create_topic_graphic(drawn).ret
              /\ tpc' = "post"
              /\ UNCHANGED <<callee_exc, escaped>>
         ELSE /\ Abort(create_topic_graphic(drawn).exc)
              /\ UNCHANGED image_buffer
    /\ UNCHANGED <<topic, text_response, text_content, image_response,
                   ai_image, sends, success>>

\* success = self.post_to_telegram(text_content, image_buffer); the
\* response of the image model is out of scope by now
PostToTelegram ==
    /\ tpc = "post"
    /\ image_response' = NoResponse
    /\ \E o1 \in HttpOutcomes, o2 \in HttpOutcomes :
         LET res == post_to_telegram(text_content, image_buffer, o1, o2)
         IN /\ sends' = res.sends
            /\ IF res.exc = "none"
               THEN /\ success' = res.ret
                    /\ tpc' = "done"
                    /\ UNCHANGED <<callee_exc, escaped>>
               ELSE /\ Abort(res.exc)
                    /\ UNCHANGED success
    /\ UNCHANGED <<topic, text_response, text_content, ai_image,
                   image_buffer, calls>>

----------------------------------------------------------------------------
(* Specifications *)

\* the process: main, the scheduler thread and the request handlers
Init == SysInit /\ TaskInit

Next ==
    \/ Construct /\ UNCHANGED taskVars
    \/ SetupSchedule /\ UNCHANGED taskVars
    \/ StartThread /\ UNCHANGED taskVars
    \/ SkipScheduler /\ UNCHANGED taskVars
    \/ StartServer /\ UNCHANGED taskVars
    \/ RunPending /\ UNCHANGED taskVars
    \/ JobBegin /\ UNCHANGED taskVars
    \/ (\E j \in running, dur \in 0 .. MaxTaskMinutes, exc \in Stages \cup {"none"} :
          JobEnd(j, dur, exc)) /\ UNCHANGED taskVars
    \/ Sleep /\ UNCHANGED taskVars
    \/ (\E h \in Handlers : TestPostBegin(h)) /\ UNCHANGED taskVars
    \/ (\E h \in Handlers : TestPostEnd(h)) /\ UNCHANGED taskVars

Spec == Init /\ [][Next]_vars

\* one run of create_and_post_ai_post in a configured process
RunInit ==
    /\ SysInit
    /\ env = {RequiredVars[k] : k \in 1 .. Len(RequiredVars)}
    /\ now = 6 * 60 + 58
    /\ TaskInit

RunNext ==
    \/ SelectTopic /\ UNCHANGED sysVars
    \/ GenerateText /\ UNCHANGED sysVars
    \/ GenerateImage /\ UNCHANGED sysVars
    \/ CreateGraphic /\ UNCHANGED sysVars
    \/ PostToTelegram /\ UNCHANGED sysVars

RunSpec == RunInit /\ [][RunNext]_vars

----------------------------------------------------------------------------
(* Properties *)

Range(f) == {f[k] : k \in DOMAIN f}

\* the scheduled time of slot s on day d
SlotTime(s, d) == d * MinutesPerDay + jobs[s].at

\* the slot occurrences the poll loop has been running for and has polled
Polled(s, d) == setupTime < SlotTime(s, d) /\ SlotTime(s, d) <= pollStart

\* C1: once setup_schedule has run there are exactly 20 slots, strictly
\* increasing in time of day (so no two coincide), the first at 07:00 and
\* the last at or before 21:00.
C1_TwentyIncreasingSlots ==
    jobs # <<>> =>
        /\ Len(jobs) = 20
        /\ Len(post_times) = 20
        /\ \A a \in 1 .. (Len(jobs) - 1) : jobs[a].at < jobs[a + 1].at
        /\ jobs[1].at = 7 * 60
        /\ jobs[Len(jobs)].at <= 21 * 60

C1_Witness == mainPc = "scheduled" /\ Len(jobs) = 20

\* C2: the interval is 44 minutes and slot i is 07:00 plus i*44 minutes with
\* the minutes carried into the hour: slot 0 is "07:00", slot 1 is "07:44",
\* slot 19 is "20:56".
C2_SlotsAre44MinutesApart ==
    post_times # <<>> =>
        /\ interval = 44
        /\ \A i \in 0 .. 19 : jobs[i + 1].at = 7 * 60 + i * 44
        /\ post_times[1] = <<"0", "7", ":", "0", "0">>
        /\ post_times[2] = <<"0", "7", ":", "4", "4">>
        /\ post_times[20] = <<"2", "0", ":", "5", "6">>

C2_Witness ==
    /\ mainPc = "thread_started"
    /\ post_times[20] = <<"2", "0", ":", "5", "6">>
    /\ jobs[20].at = 20 * 60 + 56

\* C3: for every slot and every day on which the poll loop was set up before
\* the slot's time, the task is invoked exactly once for that slot: never
\* twice, and once the loop has polled at or after the slot's time, not zero
\* times; after the invocation the slot is due again at the same time of the
\* following day.
C3_OncePerSlotPerDay ==
    jobs # <<>> =>
        \A s \in Slots, d \in 0 .. (MaxDays - 1) :
            /\ firedOn[s][d] <= 1
            /\ (schedPc = "poll" /\ Polled(s, d)) => firedOn[s][d] = 1
            /\ (firedOn[s][d] = 1 /\ s \notin running /\ firedOn[s][d + 1] = 0)
                   => jobs[s].next_run = SlotTime(s, d + 1)

C3_Witness ==
    /\ jobs # <<>>
    /\ \E s \in Slots : firedOn[s][0] = 1 /\ firedOn[s][1] = 1
    /\ \A s \in Slots : firedOn[s][1] = 1

\* C4: after a scheduled invocation in which the task raised (in any stage),
\* the scheduler thread is still in its loop, and every slot whose time the
\* loop has polled since has been invoked: later slots still fire.
C4_LoopSurvivesTaskFailure ==
    raises > 0 =>
        /\ schedPc \in {"poll", "run_pending", "caught"}
        /\ schedPc = "poll" =>
              \A s \in Slots, d \in 0 .. (MaxDays - 1) :
                  Polled(s, d) => firedOn[s][d] >= 1

C4_Witness ==
    /\ raises > 0
    /\ firedAfterRaise
    /\ schedPc = "poll"
    /\ \A s \in Slots : firedOn[s][MaxDays - 1] = 1

\* C5: at most one run of create_and_post_ai_post is active at any time,
\* counting the scheduler thread's run and the runs of /test_post handlers.
C5_AtMostOneRunActive ==
    Cardinality(running) + Cardinality({h \in Handlers : hPc[h] = "running"}) <= 1

\* C6: a send whose response status is 503 is attempted exactly 3 times, with
\* delays of 1 and 2 before the second and third attempt, and the failure is
\* reported after the third.
C6_Retry503ThreeTimes ==
    tpc = "done" =>
        \A k \in 1 .. Len(sends) :
            sends[k].attempts[1].status = 503 =>
                /\ Len(sends[k].attempts) = 3
                /\ [a \in 1 .. 3 |-> sends[k].attempts[a].delay] = <<0, 1, 2>>
                /\ success = FALSE

\* C7: a send whose response status is below 500 and not 200 is attempted
\* exactly once, without any delay, and it is the last send of the call,
\* which reports failure.
C7_NoRetryOnClientError ==
    tpc = "done" =>
        \A k \in 1 .. Len(sends) :
            (\E a \in 1 .. Len(sends[k].attempts) :
                 sends[k].attempts[a].status \in 400 .. 499) =>
                /\ Len(sends[k].attempts) = 1
                /\ sends[k].attempts[1].delay = 0
                /\ k = Len(sends)
                /\ success = FALSE

C7_Witness ==
    /\ tpc = "done"
    /\ sends # <<>>
    /\ sends[Len(sends)].attempts[1].status = 404
    /\ success = FALSE

\* C8: generate_uzbek_text returns non-empty text for every topic and every
\* upstream outcome, and when the upstream call raised or gave an empty
\* result the text is the fallback paragraph, which contains the topic.
C8_TextNeverEmpty ==
    tpc = "image" =>
        /\ TextLen(text_content) > 0
        /\ (\/ text_response.kind = "raises"
            \/ text_response.kind = "text" /\ TextLen(text_response.text) = 0)
               => /\ text_content = GetFallbackText(topic)
                  /\ ContainsTopic(text_content, topic)

\* C9: the AI image generation is the first image call of a run; the
\* placeholder renderer is called exactly when the AI attempt returned no
\* image (which it does when the upstream call raised or the response has no
\* parts); the run goes on with an image or with the explicit no-image
\* value; no exception leaves either image step.
C9_PlaceholderIffNoAiImage ==
    /\ callee_exc = "none"
    /\ escaped = "none"
    /\ calls # <<>> => calls[1] = "generate_topic_image"
    /\ tpc \in {"graphic", "post"} =>
          /\ image_response.kind \in {"raises", "none", "no_parts"} => ai_image = NoImage
          /\ ai_image.img \in {"none", "ai"}
    /\ tpc \in {"post", "done"} =>
          /\ ("create_topic_graphic" \in Range(calls)) <=> (ai_image = NoImage)
          /\ ai_image # NoImage => image_buffer = ai_image
          /\ image_buffer.img \in {"none", "ai", "graphic"}
          /\ Len(calls) <= 2

C9_Witness ==
    /\ tpc = "post"
    /\ image_response.kind = "raises"
    /\ calls = <<"generate_topic_image", "create_topic_graphic">>
    /\ image_buffer = GraphicImage

\* a part that carries non-empty decodable image data
ValidPart(p) == HasInlineData(p) /\ (p.inline = "str" => p.padded) /\ p.n > 0

\* C10: generate_topic_image returns the first part, in response order, that
\* carries non-empty decodable image data, skipping the parts before it that
\* have no inline data, an empty payload or undecodable data.
C10_FirstValidPartReturned ==
    (tpc \in {"graphic", "post"} /\ image_response.kind = "parts") =>
        LET ps == image_response.parts
            valid == {i \in 1 .. Len(ps) : ValidPart(ps[i])}
        IN IF valid = {} THEN ai_image = NoImage
           ELSE LET first == CHOOSE i \in valid : \A k \in valid : i <= k
                IN ai_image = AiImage(first, ps[first].n)

\* send k got a response with status 200
Accepted(k) == Outcome(sends[k]).exc = "none" /\ Outcome(sends[k]).status = 200

\* the sends of a finished post_to_telegram call
PhotoSend(k, body) == sends[k].op = "sendPhoto" /\ sends[k].body = body
TextSend(k, body) == sends[k].op = "sendMessage" /\ sends[k].body = body

\* C11 as stated: with an image, one send (the photo with the full text as
\* caption) when the text has at most 1024 characters, and two sends (the
\* photo with the short caption, then the full text) when it has more.
C11_OneOrTwoSends ==
    (tpc = "done" /\ image_buffer # NoImage) =>
        IF TextLen(text_content) <= 1024
        THEN Len(sends) = 1 /\ PhotoSend(1, text_content)
        ELSE /\ Len(sends) = 2
             /\ PhotoSend(1, short_caption)
             /\ TextSend(2, text_content)

\* C11 amended: as C11, but for a text of more than 1024 characters the
\* second send is made exactly when the photo send returned status 200;
\* otherwise the photo send is the only send.
C11_TwoSendsWhenPhotoAccepted ==
    (tpc = "done" /\ image_buffer # NoImage) =>
        IF TextLen(text_content) <= 1024
        THEN Len(sends) = 1 /\ PhotoSend(1, text_content)
        ELSE /\ PhotoSend(1, short_caption)
             /\ IF Accepted(1)
                THEN Len(sends) = 2 /\ TextSend(2, text_content)
                ELSE Len(sends) = 1

C11_Witness ==
    /\ tpc = "done"
    /\ image_buffer # NoImage
    /\ TextLen(text_content) = 2000
    /\ Len(sends) = 2
    /\ TextSend(2, text_content)

\* C12: without an image the call makes exactly one send, a sendMessage that
\* carries the full text, and no sendPhoto, whatever the length of the text.
C12_TextAloneWithoutImage ==
    (tpc = "done" /\ image_buffer = NoImage) =>
        /\ Len(sends) = 1
        /\ TextSend(1, text_content)
        /\ \A k \in 1 .. Len(sends) : sends[k].op # "sendPhoto"

C12_Witness ==
    /\ tpc = "done"
    /\ image_buffer = NoImage
    /\ TextLen(text_content) = 2000
    /\ sends[1].op = "sendMessage"

\* a send that did not get status 200: another status, or an exception
FailedSend(k) == ~Accepted(k)

\* C13: no exception leaves post_to_telegram and it returns a boolean; when
\* a send got a status other than 200, timed out or failed to connect, the
\* result is false.
C13_BooleanNeverRaises ==
    tpc = "done" =>
        /\ callee_exc = "none"
        /\ success \in BOOLEAN
        /\ (\E k \in 1 .. Len(sends) : FailedSend(k)) => success = FALSE

C13_Witness ==
    /\ tpc = "done"
    /\ sends # <<>>
    /\ Outcome(sends[Len(sends)]).exc = "Timeout"
    /\ success = FALSE

\* every required environment variable is set
AllConfigured == env = {RequiredVars[k] : k \in 1 .. Len(RequiredVars)}

\* C14: when a required variable is absent, no slot is ever scheduled, the
\* scheduler thread is never started and no scheduled invocation happens,
\* while main still goes on to start the web server; when all three are
\* present, the web server is started only after the schedule has been set
\* up and the scheduler thread started.
C14_NoSchedulerWithoutConfig ==
    /\ ~AllConfigured =>
          /\ jobs = <<>>
          /\ post_times = <<>>
          /\ schedPc = "not_started"
          /\ batch = <<>>
          /\ running = {}
          /\ firedOn = [s \in Slots |-> [d \in Days |-> 0]]
          /\ mainPc \in {"start", "constructed", "no_scheduler", "serving"}
          /\ mainPc = "no_scheduler" => ENABLED (StartServer /\ UNCHANGED taskVars)
    /\ AllConfigured =>
          /\ mainPc # "no_scheduler"
          /\ mainPc = "serving" => (Len(jobs) = NumPosts /\ schedPc # "not_started")
          /\ schedPc # "not_started" => Len(jobs) = NumPosts

C14_Witness ==
    /\ ~AllConfigured
    /\ mainPc = "serving"
    /\ schedPc = "not_started"
    /\ \E h \in Handlers : hPc[h] = "refused"

\* C15: a second send is made only after a photo send that got status 200,
\* and it is the text message; with an image and a text of more than 1024
\* characters, a photo send that got anything else is the only send and the
\* result is false; the result is true only if every send got status 200.
C15_TextOnlyAfterPhotoAccepted ==
    tpc = "done" =>
        /\ Len(sends) = 2 =>
              /\ sends[1].op = "sendPhoto"
              /\ Accepted(1)
              /\ sends[2].op = "sendMessage"
        /\ (image_buffer # NoImage /\ TextLen(text_content) > 1024 /\ ~Accepted(1))
              => (Len(sends) = 1 /\ success = FALSE)
        /\ success = TRUE => \A k \in 1 .. Len(sends) : Accepted(k)

C15_Witness ==
    /\ tpc = "done"
    /\ image_buffer # NoImage
    /\ TextLen(text_content) > 1024
    /\ sends[1].op = "sendPhoto"
    /\ Outcome(sends[1]).status = 503
    /\ Len(sends) = 1
    /\ success = FALSE

====
